---- MODULE Spec2Model ----
(***************************************************************************)
(* Model of bme_280_data.py: a BME280 capture decoder.  The script reads   *)
(* a byte buffer (0xFE, 32 calibration bytes, then 0xFF-prefixed 9-byte    *)
(* frames), parses the calibration coefficients, scans the frame region    *)
(* with a resynchronising cursor and appends one compensated measurement   *)
(* per accepted frame to three lists.                                      *)
(*                                                                         *)
(* Python integers are unbounded; TLC's are 32-bit.  The compensation      *)
(* arithmetic is therefore carried out on arbitrary-precision integers     *)
(* (sign + little-endian limbs in base 2^15), with Python's semantics for  *)
(* >> (floor), << and // (floor).                                          *)
(***************************************************************************)
EXTENDS Integers, Sequences, FiniteSets, TLC

(***************************************************************************)
(* Arbitrary-precision integers (Python int).                              *)
(***************************************************************************)
LimbBits == 15

Base == 2^LimbBits

RECURSIVE MTrim(_)
MTrim(m) ==
    IF m = <<>> THEN <<>>
    ELSE IF m[Len(m)] = 0 THEN MTrim(SubSeq(m, 1, Len(m) - 1))
    ELSE m

RECURSIVE MAddC(_, _, _)
MAddC(a, b, c) ==
    IF a = <<>> /\ b = <<>> THEN (IF c = 0 THEN <<>> ELSE <<c>>)
    ELSE LET x == IF a = <<>> THEN 0 ELSE Head(a)
             y == IF b = <<>> THEN 0 ELSE Head(b)
             s == x + y + c
         IN  <<s % Base>> \o MAddC(IF a = <<>> THEN a ELSE Tail(a),
                                   IF b = <<>> THEN b ELSE Tail(b),
                                   s \div Base)

MAdd(a, b) == MAddC(a, b, 0)

RECURSIVE MSubB(_, _, _)
MSubB(a, b, br) ==
    IF a = <<>> THEN <<>>
    ELSE LET y == IF b = <<>> THEN 0 ELSE Head(b)
             d == Head(a) - y - br
         IN  <<d % Base>> \o MSubB(Tail(a),
                                   IF b = <<>> THEN b ELSE Tail(b),
                                   IF d < 0 THEN 1 ELSE 0)

\* a - b for magnitudes with a >= b
MSub(a, b) == MTrim(MSubB(a, b, 0))

RECURSIVE MCmp(_, _)
MCmp(a, b) ==
    IF Len(a) # Len(b) THEN (IF Len(a) < Len(b) THEN -1 ELSE 1)
    ELSE IF a = <<>> THEN 0
    ELSE LET n == Len(a)
         IN  IF a[n] # b[n] THEN (IF a[n] < b[n] THEN -1 ELSE 1)
             ELSE MCmp(SubSeq(a, 1, n - 1), SubSeq(b, 1, n - 1))

RECURSIVE MMulSmallC(_, _, _)
MMulSmallC(a, k, c) ==
    IF a = <<>> THEN (IF c = 0 THEN <<>> ELSE <<c>>)
    ELSE LET s == Head(a) * k + c
         IN  <<s % Base>> \o MMulSmallC(Tail(a), k, s \div Base)

\* a * k for a limb-sized k
MMulSmall(a, k) == MTrim(MMulSmallC(a, k, 0))

RECURSIVE MMul(_, _)
MMul(a, b) ==
    IF a = <<>> \/ b = <<>> THEN <<>>
    ELSE LET rest == MMul(a, Tail(b))
         IN  MAdd(MMulSmall(a, Head(b)),
                  IF rest = <<>> THEN <<>> ELSE <<0>> \o rest)

MShl(a, n) ==
    IF a = <<>> THEN <<>>
    ELSE [i \in 1..(n \div LimbBits) |-> 0] \o MMulSmall(a, 2^(n % LimbBits))

MShr(a, n) ==
    LET q == n \div LimbBits
        r == n % LimbBits
        d == IF q >= Len(a) THEN <<>> ELSE SubSeq(a, q + 1, Len(a))
    IN  MTrim([i \in 1..Len(d) |->
                  (d[i] \div 2^r)
                  + ((IF i < Len(d) THEN d[i + 1] ELSE 0) % 2^r) * 2^(LimbBits - r)])

\* the single element of a singleton set
The(S) == CHOOSE x \in S : TRUE

\* the quotient digit r \div b for r < b * Base, where the top limb of b is at
\* least Base / 2: the two-limb estimate e is at most 2 too large
MDigit(r, b) ==
    LET n   == Len(b)
        top == (IF Len(r) > n THEN r[n + 1] ELSE 0) * Base + r[n]
        q   == top \div b[n]
        e   == IF q < Base THEN q ELSE Base - 1
    IN  IF MCmp(MMulSmall(b, e), r) <= 0 THEN e
        ELSE IF MCmp(MMulSmall(b, e - 1), r) <= 0 THEN e - 1
        ELSE e - 2

\* <<a div b, a mod b>> by limbs, with a = Head(a) + Base * Tail(a)
RECURSIVE MDivNorm(_, _)
MDivNorm(a, b) ==
    IF a = <<>> THEN << <<>>, <<>> >>
    ELSE The({ The({ IF MCmp(r2, b) < 0
                     THEN <<MTrim(<<0>> \o hi[1]), r2>>
                     ELSE The({ <<MTrim(<<d>> \o hi[1]), MSub(r2, MMulSmall(b, d))>> :
                                    d \in {MDigit(r2, b)} }) :
                        r2 \in {MTrim(<<Head(a)>> \o hi[2])} }) :
                 hi \in {MDivNorm(Tail(a), b)} })

\* <<a div b, a mod b>> for magnitudes, b # 0: both are first shifted left
\* until the top limb of b is at least Base / 2
MDivMod(a, b) ==
    LET sh == CHOOSE k \in 0..(LimbBits - 1) :
                  b[Len(b)] * 2^k \in (Base \div 2)..(Base - 1)
    IN  The({ <<qr[1], MShr(qr[2], sh)>> : qr \in {MDivNorm(MShl(a, sh), MShl(b, sh))} })

Big(neg, mag) == [neg |-> neg /\ mag # <<>>, mag |-> mag]

RECURSIVE NatMag(_)
NatMag(n) == IF n = 0 THEN <<>> ELSE <<n % Base>> \o NatMag(n \div Base)

\* the Python int with the (32-bit representable) value n
I(n) == IF n < 0 THEN Big(TRUE, NatMag(-n)) ELSE Big(FALSE, NatMag(n))

Neg(a) == Big(~a.neg, a.mag)

Add(a, b) ==
    IF a.neg = b.neg THEN Big(a.neg, MAdd(a.mag, b.mag))
    ELSE IF MCmp(a.mag, b.mag) >= 0 THEN Big(a.neg, MSub(a.mag, b.mag))
    ELSE Big(b.neg, MSub(b.mag, a.mag))

Sub(a, b) == Add(a, Neg(b))

Mul(a, b) == Big(a.neg # b.neg, MMul(a.mag, b.mag))

\* a << n
Shl(a, n) == Big(a.neg, MShl(a.mag, n))

\* a >> n : floor(a / 2^n), sign preserving
Shr(a, n) ==
    IF ~a.neg THEN Big(FALSE, MShr(a.mag, n))
    ELSE Big(TRUE, MAdd(MShr(MSub(a.mag, <<1>>), n), <<1>>))

\* a // b for b # 0 : floor division
FloorDiv(a, b) ==
    LET qr == MDivMod(a.mag, b.mag)
    IN  IF a.neg = b.neg THEN Big(FALSE, qr[1])
        ELSE IF qr[2] = <<>> THEN Big(TRUE, qr[1])
        ELSE Big(TRUE, MAdd(qr[1], <<1>>))

\* a <= b
Leq(a, b) ==
    IF a.neg # b.neg THEN a.neg
    ELSE IF a.neg THEN MCmp(a.mag, b.mag) >= 0
    ELSE MCmp(a.mag, b.mag) <= 0

Min(a, b) == IF Leq(a, b) THEN a ELSE b

Max(a, b) == IF Leq(b, a) THEN a ELSE b

(***************************************************************************)
(* Byte-level helpers (values that fit a machine word).                    *)
(***************************************************************************)
\* a | b
RECURSIVE BitOr(_, _)
BitOr(a, b) ==
    IF a = 0 THEN b
    ELSE IF b = 0 THEN a
    ELSE (IF a % 2 = 1 \/ b % 2 = 1 THEN 1 ELSE 0) + 2 * BitOr(a \div 2, b \div 2)

\* a & b
RECURSIVE BitAnd(_, _)
BitAnd(a, b) ==
    IF a = 0 \/ b = 0 THEN 0
    ELSE (IF a % 2 = 1 /\ b % 2 = 1 THEN 1 ELSE 0) + 2 * BitAnd(a \div 2, b \div 2)

\* s[k] with Python's 0-based index
At(s, k) == s[k + 1]

\* s[lo:hi]
Slice(s, lo, hi) ==
    LET h == IF hi < Len(s) THEN hi ELSE Len(s)
    IN  IF lo >= h THEN <<>> ELSE SubSeq(s, lo + 1, h)

CalibStart == 254

FrameStart == 255

CalibLen == 32

u16(lsb, msb) == BitOr(msb * 2^8, lsb)

\* s16 without the two's-complement step
s16Unsigned(lsb, msb) == BitOr(msb * 2^8, lsb)

s16(lsb, msb) ==
    LET val == BitOr(msb * 2^8, lsb)
    IN  IF BitAnd(val, 32768) # 0 THEN val - 65536 ELSE val

\* struct.unpack("b", bytes([b]))[0]
s8(b) == IF b >= 128 THEN b - 256 ELSE b

dig_H4(calib) == BitOr(At(calib, 28) * 2^4, BitAnd(At(calib, 29), 15))

dig_H5(calib) == BitOr(At(calib, 30) * 2^4, At(calib, 29) \div 2^4)

\* the coefficients in the order the script assigns them
FieldOrder ==
    <<"dig_T1", "dig_T2", "dig_T3", "dig_P1", "dig_P2", "dig_P3", "dig_P4",
      "dig_P5", "dig_P6", "dig_P7", "dig_P8", "dig_P9", "dig_H1", "dig_H2",
      "dig_H3", "dig_H4", "dig_H5", "dig_H6">>

FieldNames == {FieldOrder[k] : k \in 1..Len(FieldOrder)}

\* the highest calib index the assignment of field f reads
LastIndex(f) ==
    CASE f = "dig_T1" -> 1   [] f = "dig_T2" -> 3   [] f = "dig_T3" -> 5
      [] f = "dig_P1" -> 7   [] f = "dig_P2" -> 9   [] f = "dig_P3" -> 11
      [] f = "dig_P4" -> 13  [] f = "dig_P5" -> 15  [] f = "dig_P6" -> 17
      [] f = "dig_P7" -> 19  [] f = "dig_P8" -> 21  [] f = "dig_P9" -> 23
      [] f = "dig_H1" -> 24  [] f = "dig_H2" -> 26  [] f = "dig_H3" -> 27
      [] f = "dig_H4" -> 29  [] f = "dig_H5" -> 30  [] f = "dig_H6" -> 31

FieldValue(calib, f) ==
    CASE f = "dig_T1" -> u16(At(calib, 0), At(calib, 1))
      [] f = "dig_T2" -> s16(At(calib, 2), At(calib, 3))
      [] f = "dig_T3" -> s16(At(calib, 4), At(calib, 5))
      [] f = "dig_P1" -> u16(At(calib, 6), At(calib, 7))
      [] f = "dig_P2" -> s16(At(calib, 8), At(calib, 9))
      [] f = "dig_P3" -> s16(At(calib, 10), At(calib, 11))
      [] f = "dig_P4" -> s16(At(calib, 12), At(calib, 13))
      [] f = "dig_P5" -> s16(At(calib, 14), At(calib, 15))
      [] f = "dig_P6" -> s16(At(calib, 16), At(calib, 17))
      [] f = "dig_P7" -> s16(At(calib, 18), At(calib, 19))
      [] f = "dig_P8" -> s16(At(calib, 20), At(calib, 21))
      [] f = "dig_P9" -> s16(At(calib, 22), At(calib, 23))
      [] f = "dig_H1" -> At(calib, 24)
      [] f = "dig_H2" -> s16(At(calib, 25), At(calib, 26))
      [] f = "dig_H3" -> At(calib, 27)
      [] f = "dig_H4" -> dig_H4(calib)
      [] f = "dig_H5" -> dig_H5(calib)
      [] f = "dig_H6" -> s8(At(calib, 31))

\* the coefficients bound when the assignments run on calib: every assignment
\* up to the first one that indexes past the end of calib
ParseCalib(calib) ==
    [f \in {g \in FieldNames : LastIndex(g) < Len(calib)} |-> FieldValue(calib, f)]

\* the start marker compared with the frame sentinel instead
CalibStartOKWrongByte(d) == At(d, 0) = FrameStart

\* data[0] != 0xFE is false
CalibStartOK(d) == At(d, 0) = CalibStart

(***************************************************************************)
(* Frame decoding and compensation.  The script's working names (var1,     *)
(* var2, t_fine, p, pressure, ...) are module globals that live across     *)
(* loop iterations: scr maps each name bound so far to its value.          *)
(***************************************************************************)
\* the loop bound one byte short: while i + 7 < len(frames)
LoopCondOffByOne(k, fr) == k + 7 < Len(fr)

\* while i + 8 < len(frames)
LoopCond(k, fr) == k + 8 < Len(fr)

adc_T(fr, k) ==
    BitOr(BitOr(At(fr, k + 1) * 2^12, At(fr, k + 2) * 2^4), At(fr, k + 3) \div 2^4)

adc_P(fr, k) ==
    BitOr(BitOr(At(fr, k + 4) * 2^12, At(fr, k + 5) * 2^4), At(fr, k + 6) \div 2^4)

adc_H(fr, k) == BitOr(At(fr, k + 7) * 2^8, At(fr, k + 8))

AdcOf(fr, k) == [T |-> adc_T(fr, k), P |-> adc_P(fr, k), H |-> adc_H(fr, k)]

\* a float produced by an int / float-literal division, kept exact
Ratio(n, d) == [num |-> n, den |-> d]

\* bind the names of new in s
Bind(s, new) == new @@ s

\* var1, var2 and t_fine
TemperatureFine(s, d, aT) ==
    LET T1   == I(d.dig_T1)
        x    == Sub(Shr(I(aT), 4), T1)
        var1 == Shr(Mul(Sub(Shr(I(aT), 3), Shl(T1, 1)), I(d.dig_T2)), 11)
    IN  The({Bind(s, [var1 |-> var1, var2 |-> var2, t_fine |-> Add(var1, var2)]) :
                var2 \in {Shr(Mul(Shr(Mul(x, x), 12), I(d.dig_T3)), 14)}})

\* T = (t_fine * 5 + 128) >> 8; temperature = T / 100.0
TemperatureFinish(s) ==
    The({Bind(s, [T |-> t, temperature |-> Ratio(t, 100)]) :
            t \in {Shr(Add(Mul(s.t_fine, I(5)), I(128)), 8)}})

TemperatureCalc(s, d, aT) ==
    The({TemperatureFinish(f) : f \in {TemperatureFine(s, d, aT)}})

\* lines up to the divisor: var1, var2 from t_fine
PressureDivisor(s, d) ==
    LET v1a == Sub(s.t_fine, I(128000))
        v2a == Mul(Mul(v1a, v1a), I(d.dig_P6))
        v2b == Add(v2a, Shl(Mul(v1a, I(d.dig_P5)), 17))
        v2c == Add(v2b, Shl(I(d.dig_P4), 35))
        v1b == Add(Shr(Mul(Mul(v1a, v1a), I(d.dig_P3)), 8),
                   Shl(Mul(v1a, I(d.dig_P2)), 12))
        v1c == Shr(Mul(Add(Shl(I(1), 47), v1b), I(d.dig_P1)), 33)
    IN  Bind(s, [var1 |-> v1c, var2 |-> v2c])

\* p = 1048576 - adc_P; p = (((p << 31) - var2) * 3125) // var1
PressureQuotient(s, aP) ==
    Bind(s, [p |-> FloorDiv(Mul(Sub(Shl(Sub(I(1048576), I(aP)), 31), s.var2),
                                I(3125)),
                            s.var1)])

\* var1, var2 and p from the quotient; pressure = p / 25600.0
PressureFinish(s, d) ==
    LET var1 == Shr(Mul(Mul(I(d.dig_P9), Shr(s.p, 13)), Shr(s.p, 13)), 25)
        var2 == Shr(Mul(I(d.dig_P8), s.p), 19)
    IN  The({Bind(s, [p |-> p3, var1 |-> var1, var2 |-> var2,
                      pressure |-> Ratio(p3, 25600)]) :
                p3 \in {Add(Shr(Add(Add(s.p, var1), var2), 8), Shl(I(d.dig_P7), 4))}})

\* the else branch left out: pressure keeps the value of the previous frame
PressureBranchStale(s, d, aP) ==
    IF s.var1 # I(0)
    THEN The({PressureFinish(q, d) : q \in {PressureQuotient(s, aP)}})
    ELSE IF "pressure" \in DOMAIN s THEN s
    ELSE Bind(s, [pressure |-> Ratio(I(0), 1)])

\* the else branch reporting the sensor's minimum pressure (300 hPa)
PressureBranchMin(s, d, aP) ==
    IF s.var1 # I(0)
    THEN The({PressureFinish(q, d) : q \in {PressureQuotient(s, aP)}})
    ELSE Bind(s, [pressure |-> Ratio(I(7680000), 25600)])

\* if var1 != 0: ... else: pressure = 0
PressureBranch(s, d, aP) ==
    IF s.var1 # I(0)
    THEN The({PressureFinish(q, d) : q \in {PressureQuotient(s, aP)}})
    ELSE Bind(s, [pressure |-> Ratio(I(0), 1)])

HumidityMax == 419430400

\* the clamp without its upper bound
ClampLowerOnly(v) == Max(I(0), v)

\* max(0, min(v, 419430400))
Clamp(v) == Max(I(0), Min(v, I(HumidityMax)))

\* v_x1 = t_fine - 76800 and the product of the two factors
HumidityRaw(s, d, aH) ==
    LET v0 == Sub(s.t_fine, I(76800))
        a  == Shr(Add(Sub(Sub(Shl(I(aH), 14), Shl(I(d.dig_H4), 20)),
                          Mul(I(d.dig_H5), v0)), I(16384)), 15)
        b  == Shr(Add(Mul(Add(Shr(Mul(Shr(Mul(v0, I(d.dig_H6)), 10),
                                      Add(Shr(Mul(v0, I(d.dig_H3)), 11), I(32768))),
                                  10), I(2097152)),
                          I(d.dig_H2)), I(8192)), 14)
    IN  Bind(s, [v_x1 |-> Mul(a, b)])

\* the dig_H1 correction, the clamp and humidity = (v_x1 >> 12) / 1024.0
HumidityFinish(s, d) ==
    The({Bind(s, [v_x1 |-> v3, humidity |-> Ratio(Shr(v3, 12), 1024)]) :
            v3 \in {Clamp(Sub(s.v_x1,
                              Shr(Mul(Shr(Mul(Shr(s.v_x1, 15), Shr(s.v_x1, 15)), 7),
                                      I(d.dig_H1)), 4)))}})

HumidityCalc(s, d, aH) ==
    The({HumidityFinish(r, d) : r \in {HumidityRaw(s, d, aH)}})

\* one frame's compensation, started from the working names s
Compensate(s, d, adc) ==
    The({ The({ The({ HumidityCalc(s3, d, adc.H) :
                        s3 \in {PressureBranch(s2, d, adc.P)} }) :
                  s2 \in {PressureDivisor(s1, d)} }) :
            s1 \in {TemperatureCalc(s, d, adc.T)} })

\* what one iteration appends to the three lists
Measurement(s) ==
    [temperature |-> s.temperature, pressure |-> s.pressure, humidity |-> s.humidity]

(***************************************************************************)
(* Input buffers.                                                          *)
(***************************************************************************)
\* the calibration block of hex_data
CalibGolden ==
    <<201, 109, 53, 103, 50, 0, 159, 141, 65, 214, 208, 11, 231, 31, 6, 0,
      249, 255, 172, 38, 10, 216, 189, 16, 75, 112, 1, 0, 19, 32, 3, 30>>

\* the same block with dig_P1 = 0
CalibZeroP1 == [CalibGolden EXCEPT ![7] = 0, ![8] = 0]

\* dig_T1 = 0, dig_T2 = 24576, dig_T3 = 0, dig_P1 = 1, dig_P2 = 0,
\* dig_P3 = -32768; calib[28] and calib[30] have their top bit set
CalibExtreme ==
    <<0, 0, 0, 96, 0, 0, 1, 0, 0, 0, 0, 128, 231, 31, 6, 0,
      249, 255, 172, 38, 10, 216, 189, 16, 75, 112, 1, 3, 128, 47, 129, 226>>

Calibrations == {CalibGolden, CalibZeroP1, CalibExtreme}

\* the first frame of hex_data
FrameGolden == <<255, 127, 62, 0, 93, 145, 0, 118, 218>>

\* adc_T = 0xBF800 (t_fine = 1176576 under CalibExtreme), adc_H = 0
FrameTrigger == <<255, 191, 128, 0, 93, 145, 0, 0, 0>>

\* every payload byte equal to the frame sentinel
FrameOnes == <<255, 255, 255, 255, 255, 255, 255, 255, 255>>

FrameSet == {FrameGolden, FrameTrigger, FrameOnes}

MaxNoise == 2

\* runs of padding bytes (0x00) between frames
NoiseRuns == {[j \in 1..k |-> 0] : k \in 1..MaxNoise}

\* a stray frame sentinel
Stray == <<FrameStart>>

Pieces == FrameSet \cup NoiseRuns \cup {Stray}

MaxPieces == 3

\* concatenations of at most n pieces
RECURSIVE Regions(_)
Regions(n) ==
    IF n = 0 THEN {<<>>}
    ELSE LET shorter == Regions(n - 1)
         IN  shorter \cup {r \o q : r \in shorter, q \in Pieces}

\* a capture that stops inside a frame: the sentinel and fewer than 8 bytes
Tails == {SubSeq(FrameGolden, 1, t) : t \in 1..8}

WellFormed ==
    {<<CalibStart>> \o c \o r : c \in Calibrations, r \in Regions(MaxPieces)}
    \cup {<<CalibStart>> \o CalibGolden \o r \o t :
             r \in Regions(MaxPieces - 1), t \in Tails}

\* captures that stop inside the calibration block
Short == {SubSeq(<<CalibStart>> \o c, 1, n) : c \in Calibrations, n \in 0..CalibLen}

\* captures that do not start with the calibration sentinel
BadStart ==
    {<<b>> \o Tail(d) :
        b \in {0, FrameStart},
        d \in (Short \ {<<>>})
              \cup {<<CalibStart>> \o c \o r : c \in Calibrations, r \in Regions(1)}}

Inputs == WellFormed \cup Short \cup BadStart

(***************************************************************************)
(* The program.                                                            *)
(***************************************************************************)
VARIABLES
    data,          \* bytes.fromhex(hex_data)
    pc,            \* "start", "scan", "done", or the exception that ended the run
    dig,           \* the dig_* coefficients bound so far
    i,             \* the scan cursor
    scr,           \* the working names bound so far
    temperatures,
    pressures,
    humidities,
    accepted,      \* history: offset, ADC triplet and pressure divisor per decoded frame
    maxRead        \* history: the highest index of frames read so far

vars ==
    <<data, pc, dig, i, scr, temperatures, pressures, humidities, accepted, maxRead>>

calib == Slice(data, 1, 33)

frames == Slice(data, 33, Len(data))

Init ==
    /\ data \in Inputs
    /\ pc = "start"
    /\ dig = <<>>
    /\ i = 0
    /\ scr = <<>>
    /\ temperatures = <<>>
    /\ pressures = <<>>
    /\ humidities = <<>>
    /\ accepted = <<>>
    /\ maxRead = -1

\* if data[0] != 0xFE: raise ValueError
CheckSentinelFail ==
    /\ pc = "start"
    /\ Len(data) > 0
    /\ ~CalibStartOK(data)
    /\ pc' = "ValueError"
    /\ UNCHANGED <<data, dig, i, scr, temperatures, pressures, humidities,
                   accepted, maxRead>>

\* data[0] on an empty buffer, or a dig_* assignment indexing past the end of
\* calib, raises IndexError; the assignments before it have taken effect
CalibIndexError ==
    /\ pc = "start"
    /\ \/ Len(data) = 0
       \/ Len(data) > 0 /\ CalibStartOK(data) /\ Len(calib) < CalibLen
    /\ dig' = IF Len(data) = 0 THEN <<>> ELSE ParseCalib(calib)
    /\ pc' = "IndexError"
    /\ UNCHANGED <<data, i, scr, temperatures, pressures, humidities,
                   accepted, maxRead>>

LoadCalibration ==
    /\ pc = "start"
    /\ Len(data) > 0
    /\ CalibStartOK(data)
    /\ Len(calib) = CalibLen
    /\ dig' = ParseCalib(calib)
    /\ i' = 0
    /\ temperatures' = <<>>
    /\ pressures' = <<>>
    /\ humidities' = <<>>
    /\ pc' = "scan"
    /\ UNCHANGED <<data, scr, accepted, maxRead>>

\* a non-sentinel byte skipped by a whole frame stride
SkipStride ==
    /\ pc = "scan"
    /\ LoopCond(i, frames)
    /\ At(frames, i) # FrameStart
    /\ i' = i + 9
    /\ maxRead' = IF i > maxRead THEN i ELSE maxRead
    /\ UNCHANGED <<data, pc, dig, scr, temperatures, pressures, humidities, accepted>>

\* if frames[i] != 0xFF: i += 1; continue
SkipByte ==
    /\ pc = "scan"
    /\ LoopCond(i, frames)
    /\ At(frames, i) # FrameStart
    /\ i' = i + 1
    /\ maxRead' = IF i > maxRead THEN i ELSE maxRead
    /\ UNCHANGED <<data, pc, dig, scr, temperatures, pressures, humidities, accepted>>

\* pressures.append moved into the var1 != 0 branch
DecodeFrameGuardedAppend ==
    /\ pc = "scan"
    /\ LoopCond(i, frames)
    /\ At(frames, i) = FrameStart
    /\ i + 8 < Len(frames)
    /\ \E adc \in {AdcOf(frames, i)} :
       \E s1 \in {TemperatureCalc(scr, dig, adc.T)} :
       \E s2 \in {PressureDivisor(s1, dig)} :
       \E s3 \in {PressureBranch(s2, dig, adc.P)} :
       \E s4 \in {HumidityCalc(s3, dig, adc.H)} :
           /\ scr' = s4
           /\ temperatures' = Append(temperatures, s4.temperature)
           /\ pressures' = IF s2.var1 # I(0) THEN Append(pressures, s4.pressure)
                           ELSE pressures
           /\ humidities' = Append(humidities, s4.humidity)
           /\ accepted' = Append(accepted, [off |-> i, adc |-> adc, div |-> s2.var1])
           /\ maxRead' = i + 8
           /\ i' = i + 9
           /\ pc' = pc
    /\ UNCHANGED <<data, dig>>

\* one iteration on a sentinel: extract, compensate, append, i += 9
DecodeFrame ==
    /\ pc = "scan"
    /\ LoopCond(i, frames)
    /\ At(frames, i) = FrameStart
    /\ IF i + 8 >= Len(frames)
       THEN \* frames[i + k] past the end
            /\ pc' = "IndexError"
            /\ maxRead' = Len(frames) - 1
            /\ UNCHANGED <<i, scr, temperatures, pressures, humidities, accepted>>
       ELSE \E adc \in {AdcOf(frames, i)} :
            \E s1 \in {TemperatureCalc(scr, dig, adc.T)} :
            \E s2 \in {PressureDivisor(s1, dig)} :
            \E s3 \in {PressureBranch(s2, dig, adc.P)} :
            \E s4 \in {HumidityCalc(s3, dig, adc.H)} :
                /\ scr' = s4
                /\ temperatures' = Append(temperatures, s4.temperature)
                /\ pressures' = Append(pressures, s4.pressure)
                /\ humidities' = Append(humidities, s4.humidity)
                /\ accepted' = Append(accepted, [off |-> i, adc |-> adc, div |-> s2.var1])
                /\ maxRead' = i + 8
                /\ i' = i + 9
                /\ pc' = pc
    /\ UNCHANGED <<data, dig>>

\* the loop condition fails: the script goes on to print and plot the lists
ScanEnd ==
    /\ pc = "scan"
    /\ ~LoopCond(i, frames)
    /\ pc' = "done"
    /\ UNCHANGED <<data, dig, i, scr, temperatures, pressures, humidities,
                   accepted, maxRead>>

Next ==
    \/ CheckSentinelFail
    \/ CalibIndexError
    \/ LoadCalibration
    \/ SkipByte
    \/ DecodeFrame
    \/ ScanEnd

Spec == Init /\ [][Next]_vars

(***************************************************************************)
(* The compensation on the extremes of its inputs: captures whose          *)
(* temperature and humidity coefficients and ADC readings take their       *)
(* smallest, a typical and their largest values.                           *)
(***************************************************************************)
TBlocks == {SubSeq(CalibGolden, 1, 6), SubSeq(CalibExtreme, 1, 6)}

HBlocks ==
    {<<h1>> \o h2 \o <<h3>> \o h45 \o <<h6>> :
        h1 \in {0, 75, 255},
        h2 \in {<<112, 1>>, <<0, 128>>, <<255, 127>>},
        h3 \in {0, 255},
        h45 \in {<<19, 32, 3>>, <<255, 255, 255>>, <<0, 0, 0>>},
        h6 \in {30, 128, 127}}

ExtremeFrames ==
    {<<FrameStart>> \o t \o <<93, 145, 0>> \o h :
        t \in {<<0, 0, 0>>, <<127, 62, 0>>, <<255, 255, 240>>},
        h \in {<<0, 0>>, <<118, 218>>, <<255, 255>>}}

ExtremeInputs ==
    {<<CalibStart>> \o tb \o SubSeq(CalibGolden, 7, 24) \o hb \o n \o f :
        tb \in TBlocks, hb \in HBlocks, n \in {<<>>, <<0>>}, f \in ExtremeFrames}

InitExtremes ==
    /\ data \in ExtremeInputs
    /\ pc = "start"
    /\ dig = <<>>
    /\ i = 0
    /\ scr = <<>>
    /\ temperatures = <<>>
    /\ pressures = <<>>
    /\ humidities = <<>>
    /\ accepted = <<>>
    /\ maxRead = -1

NextScan ==
    \/ LoadCalibration
    \/ SkipByte
    \/ DecodeFrame
    \/ ScanEnd

SpecExtremes == InitExtremes /\ [][NextScan]_vars

(***************************************************************************)
(* Properties.                                                             *)
(***************************************************************************)
Calibrated == pc \in {"scan", "done"}

Failed == pc \in {"ValueError", "IndexError"}

\* the buffer holds the start marker and a whole calibration block, and the
\* calibration section has run
Loaded == pc # "start" /\ Len(data) >= 33 /\ At(data, 0) = 254

SeriesEmpty == temperatures = <<>> /\ pressures = <<>> /\ humidities = <<>>

\* the k-th entry of the series
Entry(k) ==
    [temperature |-> temperatures[k], pressure |-> pressures[k],
     humidity |-> humidities[k]]

IsPrefix(s, t) == Len(s) <= Len(t) /\ SubSeq(t, 1, Len(s)) = s

\* C1: a buffer whose byte 0 is not 0xFE ends in the ValueError of the
\* sentinel check: no coefficient is bound, no byte of the frame region is
\* read, no frame is accepted and the series stays empty.
C1_BadStartFails ==
    (Len(data) > 0 /\ At(data, 0) # 254 /\ pc # "start")
        => /\ pc = "ValueError"
           /\ dig = <<>>
           /\ i = 0
           /\ maxRead = -1
           /\ accepted = <<>>
           /\ SeriesEmpty

\* a rejected buffer that holds a full calibration block and a complete frame
C1_Witness ==
    /\ pc = "ValueError"
    /\ At(data, 0) # 254
    /\ Len(frames) >= 9
    /\ At(frames, 0) = 255

\* C2: a buffer of fewer than 33 bytes fails with the error of the sentinel
\* check (ValueError), with no coefficient bound.
C2_ShortFailsAsMalformed ==
    (Len(data) < 33 /\ pc # "start") => (pc = "ValueError" /\ dig = <<>>)

\* the frame region is n complete frames with k >= 1 non-sentinel bytes
\* inserted after the first m of them
Resync(fr, m, k) ==
    /\ m >= 1
    /\ k >= 1
    /\ Len(fr) >= 9 * (m + 1) + k
    /\ (Len(fr) - k) % 9 = 0
    /\ \A j \in 0..(m - 1) : At(fr, 9 * j) = 255
    /\ \A x \in (9 * m)..(9 * m + k - 1) : At(fr, x) # 255
    /\ \A j \in m..(((Len(fr) - k) \div 9) - 1) : At(fr, 9 * j + k) = 255

\* the frame region without the inserted bytes
Removed(fr, m, k) == SubSeq(fr, 1, 9 * m) \o SubSeq(fr, 9 * m + k + 1, Len(fr))

\* C3: with k >= 1 non-sentinel bytes inserted between two complete frames
\* of an aligned frame region, the frames are accepted at the offsets
\* 0, 9, .., 9(m-1), 9m+k, 9(m+1)+k, ..: the cursor moves by 9 per frame and
\* by 1 per inserted byte, and the j-th accepted frame has the ADC triplet of
\* the j-th frame of the region without the insertion; when the scan ends
\* every frame has been accepted and the cursor is at the end of the region.
C3_Resync ==
    \A fr \in {frames} :
    \A m \in 1..(Len(fr) \div 9), k \in 1..Len(fr) :
        (Loaded /\ Resync(fr, m, k)) =>
            LET n == (Len(fr) - k) \div 9
            IN  /\ ~Failed
                /\ Len(accepted) <= n
                /\ \A j \in 1..Len(accepted) :
                       /\ accepted[j].off = 9 * (j - 1) + (IF j > m THEN k ELSE 0)
                       /\ accepted[j].adc = AdcOf(Removed(fr, m, k), 9 * (j - 1))
                /\ (Len(accepted) < m) => i = 9 * Len(accepted)
                /\ (Len(accepted) = m) => i \in (9 * m)..(9 * m + k)
                /\ (Len(accepted) > m) => i = 9 * Len(accepted) + k
                /\ (pc = "done") => (Len(accepted) = n /\ i = 9 * n + k)
                /\ Len(temperatures) = Len(accepted)

\* a finished scan over two frames separated by two padding bytes
C3_Witness ==
    /\ pc = "done"
    /\ Resync(frames, 1, 2)
    /\ Len(accepted) = 2
    /\ accepted[2].off = 11

\* the frame region is n - 1 complete frames laid back to back and a last
\* sentinel followed by t - 1 < 8 bytes
Truncated(fr, n, t) ==
    /\ n >= 1
    /\ t \in 1..8
    /\ Len(fr) = 9 * (n - 1) + t
    /\ \A j \in 0..(n - 1) : At(fr, 9 * j) = 255

\* C4: on N back-to-back frames of which the last is cut short, the scan
\* raises no error, never reads an index at or past the end of the frame
\* region, and ends with exactly N - 1 measurements.
C4_Truncation ==
    \A fr \in {frames} :
    \A n \in 1..(Len(fr) \div 9 + 1), t \in 1..8 :
        (Loaded /\ Truncated(fr, n, t)) =>
            /\ ~Failed
            /\ maxRead < Len(fr)
            /\ i <= 9 * (n - 1)
            /\ Len(accepted) <= n - 1
            /\ (pc = "done") =>
                   /\ Len(temperatures) = n - 1
                   /\ Len(pressures) = n - 1
                   /\ Len(humidities) = n - 1
                   /\ i = 9 * (n - 1)

\* a finished scan of two complete frames and a sentinel followed by 7 bytes
C4_Witness ==
    /\ pc = "done"
    /\ Truncated(frames, 3, 8)
    /\ Len(temperatures) = 2

\* C5: every humidity in the series is (v_x1 >> 12) / 1024.0 with
\* 0 <= v_x1 >> 12 <= 102400, so it lies in [0, 100.0].
C5_HumidityRange ==
    \A k \in 1..Len(humidities) :
        /\ humidities[k].den = 1024
        /\ Leq(I(0), humidities[k].num)
        /\ Leq(humidities[k].num, I(102400))

\* a frame whose humidity was clamped at the upper bound
C5_Witness ==
    /\ Len(humidities) = 1
    /\ scr.v_x1 = I(HumidityMax)
    /\ humidities[1].num = I(102400)

\* C6: a frame whose pressure divisor is 0 (every frame when dig_P1 = 0)
\* gets pressure 0 and the temperature and humidity of the ordinary
\* computation; it is appended like any other frame and the run does not
\* fail on it.
C6_DegeneratePressure ==
    Loaded =>
        /\ ~Failed
        /\ Len(pressures) = Len(accepted)
        /\ \A k \in 1..Len(accepted) :
               /\ (dig.dig_P1 = 0) => accepted[k].div = I(0)
               /\ (accepted[k].div = I(0)) =>
                      /\ pressures[k] = Ratio(I(0), 1)
                      /\ \E s \in {Compensate(<<>>, dig, accepted[k].adc)} :
                             /\ temperatures[k] = s.temperature
                             /\ humidities[k] = s.humidity

\* a degenerate frame under dig_P1 # 0, followed by an ordinary frame
C6_Witness ==
    /\ pc = "done"
    /\ dig.dig_P1 # 0
    /\ Len(accepted) >= 2
    /\ accepted[1].div = I(0)
    /\ accepted[2].div # I(0)
    /\ pressures[1].num = I(0)
    /\ pressures[2].num # I(0)

\* between iterations the lists have one entry per accepted frame, in offset
\* order, and the last is the compensation of the last accepted frame
SeriesMatchesFrames ==
    /\ Len(temperatures) = Len(accepted)
    /\ Len(pressures) = Len(accepted)
    /\ Len(humidities) = Len(accepted)
    /\ \A fr \in {frames} :
       \A k \in 1..Len(accepted) :
           /\ At(fr, accepted[k].off) = 255
           /\ accepted[k].adc = AdcOf(fr, accepted[k].off)
           /\ k > 1 => accepted[k - 1].off + 9 <= accepted[k].off
    /\ accepted # <<>> =>
           Entry(Len(accepted)) =
               Measurement(Compensate(<<>>, dig, accepted[Len(accepted)].adc))

\* a step appends at most one entry to each list and changes no earlier one
AppendOnly ==
    /\ IsPrefix(temperatures, temperatures')
    /\ IsPrefix(pressures, pressures')
    /\ IsPrefix(humidities, humidities')
    /\ IsPrefix(accepted, accepted')
    /\ Len(temperatures') <= Len(temperatures) + 1

\* C7: at every point of the scan the three lists hold exactly one entry per
\* accepted frame, in increasing offset order, the entry of a frame being
\* its compensation; an entry once appended is never removed, moved or
\* changed.
C7_Series == [](SeriesMatchesFrames) /\ [][AppendOnly]_vars

\* three measurements in the series
C7_Witness ==
    /\ pc = "done"
    /\ Len(temperatures) = 3
    /\ Len(pressures) = 3
    /\ Len(humidities) = 3
    /\ accepted[3].off = 18

\* C8: for the calibration block and first frame of hex_data the ADC triplet
\* is (521184, 383248, 30426), t_fine = 115322, T = 2252, p = 23471488 and
\* v_x1 >> 12 = 62910.
C8_Golden ==
    (/\ Calibrated
     /\ calib = CalibGolden
     /\ Len(accepted) >= 1
     /\ accepted[1].off = 0
     /\ SubSeq(frames, 1, 9) = FrameGolden) =>
        /\ accepted[1].adc = [T |-> 521184, P |-> 383248, H |-> 30426]
        /\ temperatures[1] = Ratio(I(2252), 100)
        /\ pressures[1] = Ratio(I(23471488), 25600)
        /\ humidities[1] = Ratio(I(62910), 1024)
        /\ (Len(accepted) = 1) => (scr.t_fine = I(115322) /\ scr.T = I(2252)
                                   /\ scr.p = I(23471488))

\* the golden frame decoded first under the golden calibration
C8_Witness ==
    /\ calib = CalibGolden
    /\ Len(accepted) = 1
    /\ accepted[1].off = 0
    /\ SubSeq(frames, 1, 9) = FrameGolden
    /\ scr.t_fine = I(115322)

\* C9: the measurement of a frame is a function of the calibration and of
\* its own ADC triplet: two frames of a run with the same triplet have the
\* same measurement whatever was decoded before them, each measurement is
\* what the compensation gives when no working name is bound, and the
\* coefficients stay what the calibration block parsed to.
C9_Purity ==
    Loaded =>
        /\ dig = ParseCalib(calib)
        /\ Len(temperatures) = Len(accepted)
        /\ Len(pressures) = Len(accepted)
        /\ Len(humidities) = Len(accepted)
        /\ \A j, k \in 1..Len(accepted) :
               (accepted[j].adc = accepted[k].adc) => (Entry(j) = Entry(k))
        /\ accepted # <<>> =>
               Entry(Len(accepted)) =
                   Measurement(Compensate(<<>>, dig, accepted[Len(accepted)].adc))

\* the same frame decoded after an ordinary frame and after a degenerate one
C9_Witness ==
    /\ pc = "done"
    /\ Len(accepted) = 3
    /\ accepted[1].adc = accepted[3].adc
    /\ accepted[1].div # I(0)
    /\ accepted[2].div = I(0)

\* C10: the parsed dig_H4 and dig_H5 are signed 12-bit values, like the
\* signed 16-bit coefficients lie in [-32768, 32767] and dig_H6 in [-128, 127].
C10_SignedH4H5 ==
    Calibrated =>
        /\ dig.dig_H4 \in -2048..2047
        /\ dig.dig_H5 \in -2048..2047
        /\ dig.dig_H6 \in -128..127
        /\ \A f \in {"dig_T2", "dig_T3", "dig_P2", "dig_P3", "dig_P4", "dig_P5",
                     "dig_P6", "dig_P7", "dig_P8", "dig_P9", "dig_H2"} :
               dig[f] \in -32768..32767
====
